---- MODULE Spec2Model ----
(***************************************************************************)
(* A model of the design-pattern catalogue: each example program is a      *)
(* small state machine of its own, with its own next-state relation and    *)
(* its own specification.  The variables of the other examples stay        *)
(* unchanged while one example runs.                                       *)
(***************************************************************************)
EXTENDS Integers, Sequences, FiniteSets, TLC

(***************************************************************************)
(* Bounds of the model.                                                    *)
(***************************************************************************)
NumThreads == 2
MaxCalls == 2
MaxLayers == 3
MaxObjects == 4
MaxProxies == 4
MaxAccess == 4
MaxForwarded == 2
MaxRequests == 3
MaxTrail == 4
MaxContent == 2
MaxHistory == 2

VARIABLES
  \* ---- creational/02_singleton_solution.cpp ----
  pc,          \* per thread: where the thread stands inside getInstance()
  which,       \* per thread: the singleton class whose getInstance() it runs
  calls,       \* per thread: number of getInstance() calls completed
  seen,        \* per thread: value of `instance` read by the unlocked check
  tmp,         \* per thread: the address returned by operator new
  ret,         \* per thread: the value the last getInstance() returned
  known,       \* per thread: the thread has already observed instance != nullptr
  instance,    \* CacheManager::instance (0 is nullptr)
  instanceMutex, \* CacheManager::instanceMutex (0 is unlocked, else the owner)
  heapTop,     \* number of CacheManager objects allocated so far
  guard,       \* per Meyers singleton: the guard of the function-local static
  created,     \* per class: number of times the constructor ran
  returned,    \* per class: the set of addresses getInstance() returned
  \* ---- creational/06_builder_pattern.cpp ----
  request,     \* HttpRequestBuilder::request, the product under construction
  asked,       \* what the caller asked for: the documented defaults, then
               \* the arguments of the setter calls made so far
  outcome,     \* the result of the last build(): a request or an exception
  \* ---- structural decorator example (coffee shop) ----
  coffee,      \* per order: the decorators wrapped around a SimpleCoffee,
               \* innermost first
  \* ---- prototype example: copy_demonstration ----
  objs,        \* the ShallowCopyObject and DeepCopyObject objects ever created
  res,         \* the Resource objects ever allocated, by allocation
  undefined,   \* a deleted Resource has been deleted again
  \* ---- structural/07_proxy_pattern.cpp: SmartReferenceProxy ----
  proxies,     \* the SmartReferenceProxy objects ever created
  counters,    \* the `new int` reference counters ever allocated
  largeObjects, \* the LargeObject control blocks made by make_shared
  danglingUse, \* a freed counter has been read, written or freed again
  \* ---- structural/07_proxy_pattern.cpp: ImageProxy ----
  imageProxy,  \* per file: an ImageProxy for it has been constructed
  realImage_,  \* per file: ImageProxy::realImage_ is set
  loads,       \* per file: number of RealImage constructions (loadFromDisk)
  displays,    \* per file: number of display() calls on the proxy
  rotations,   \* per file: number of rotate() calls on the proxy
  \* ---- structural/07_proxy_pattern.cpp: ProtectedDocumentProxy ----
  userPermission_, \* per document proxy: the permission given at construction
  content_,    \* per document: RealDocument::content_
  forwarded,   \* per document: calls that reached the RealDocument, by operation
  lastCall,    \* per document: the last call made on the proxy
  \* ---- structural/07_proxy_pattern.cpp: CachingWeatherProxy ----
  cache_,      \* CachingWeatherProxy::cache_, a map from city to weather
  serviceCalls, \* per city: calls of RealWeatherService::getWeather
  requests,    \* per city: calls of CachingWeatherProxy::getWeather
  firstAnswer, \* per city: what the first proxy call for it returned
  lastAnswer,  \* the city and the result of the last proxy call
  \* ---- behavioral/06_strategy_pattern.cpp: Document state machine ----
  document,    \* the Document: state_ (by state name) and content_
  lastOp,      \* the last call on the Document and what it found
  trail,       \* the states the Document has been in, latest last (a window)
  \* ---- behavioral/06_strategy_pattern.cpp: TCPConnection ----
  tcpState,    \* TCPConnection::state_, by the name of the state class
  tcpCalls,    \* the calls made on the TCPConnection, latest last (a window)
  tcpTrail,    \* the states the connection has been in, latest last (a window)
  \* ---- behavioral/06_strategy_pattern.cpp: TextEditor, TextEditorHistory ----
  editor,      \* the TextEditor: content_ (a sequence of characters), cursorPos_
  history,     \* the TextEditorHistory: history_ (mementos), currentIndex_
  savedFrom,   \* for each entry of history_, the editor at the time of its save
  edLastOp,    \* the last call made on the editor or the history
  histLast,    \* the last saveState/undo/redo of the history and its outcome
  edCrashed,   \* the program has ended on an uncaught exception or a wild read
  \* ---- unnamed/part_003: StringPool, ParticleFactory, FormatFactory ----
  pool_,       \* StringPool::pool_: string -> the shared string object
  types_,      \* ParticleFactory::types_: name -> the ParticleType object
  formats_,    \* FormatFactory::formats_: key -> the CharacterFormat object
  flyHeap,     \* for each factory, the number of objects it has constructed
  flyFirst,    \* for each factory, key -> the object its first request returned
  flyLast      \* the last request: factory, key, object returned, made or not

singVars == <<pc, which, calls, seen, tmp, ret, known, instance, instanceMutex,
              heapTop, guard, created, returned>>

bldVars == <<request, asked, outcome>>

cofVars == <<coffee>>

copyVars == <<objs, res, undefined>>

smartVars == <<proxies, counters, largeObjects, danglingUse>>

imageVars == <<imageProxy, realImage_, loads, displays, rotations>>

docVars == <<userPermission_, content_, forwarded, lastCall>>

weatherVars == <<cache_, serviceCalls, requests, firstAnswer, lastAnswer>>

documentVars == <<document, lastOp, trail>>

tcpVars == <<tcpState, tcpCalls, tcpTrail>>

editorVars == <<editor, history, savedFrom, edLastOp, histLast, edCrashed>>

flyVars == <<pool_, types_, formats_, flyHeap, flyFirst, flyLast>>

vars == <<singVars, bldVars, cofVars, copyVars, smartVars, imageVars, docVars, weatherVars, documentVars, tcpVars, editorVars, flyVars>>

(***************************************************************************)
(* creational/02_singleton_solution.cpp                                    *)
(***************************************************************************)
Threads == 1..NumThreads
nullptr == 0
MeyersClasses == {"Logger", "DatabaseConnection"}
SingletonClasses == MeyersClasses \cup {"CacheManager"}

\* The address of a function-local static: one per class, fixed by the linker.
StaticAddress(k) == k

InitSingleton ==
  /\ pc = [t \in Threads |-> "idle"]
  /\ which = [t \in Threads |-> "Logger"]
  /\ calls = [t \in Threads |-> 0]
  /\ seen = [t \in Threads |-> nullptr]
  /\ tmp = [t \in Threads |-> nullptr]
  /\ ret = [t \in Threads |-> nullptr]
  /\ known = [t \in Threads |-> FALSE]
  /\ instance = nullptr
  /\ instanceMutex = 0
  /\ heapTop = 0
  /\ guard = [k \in MeyersClasses |-> "uninit"]
  /\ created = [k \in SingletonClasses |-> 0]
  /\ returned = [k \in SingletonClasses |-> {}]

\* A thread calls getInstance() of one of the three classes.
CallGetInstance(t) ==
  /\ pc[t] = "idle"
  /\ calls[t] < MaxCalls
  /\ \E k \in SingletonClasses :
       /\ which' = [which EXCEPT ![t] = k]
       /\ pc' = [pc EXCEPT ![t] = IF k = "CacheManager" THEN "check1" ELSE "static"]
  /\ seen' = [seen EXCEPT ![t] = nullptr]
  /\ tmp' = [tmp EXCEPT ![t] = nullptr]
  /\ UNCHANGED <<calls, ret, known, instance, instanceMutex, heapTop, guard,
                 created, returned>>

\* `static Logger instance("app.log");` -- the guarded initialisation of a
\* function-local static: the first thread to arrive runs the constructor,
\* a thread arriving meanwhile waits, a thread arriving later skips it.
StaticEnter(t) ==
  /\ pc[t] = "static"
  /\ guard[which[t]] # "busy"
  /\ IF guard[which[t]] = "uninit"
       THEN /\ guard' = [guard EXCEPT ![which[t]] = "busy"]
            /\ pc' = [pc EXCEPT ![t] = "static_ctor"]
       ELSE /\ pc' = [pc EXCEPT ![t] = "static_return"]
            /\ UNCHANGED guard
  /\ UNCHANGED <<which, calls, seen, tmp, ret, known, instance, instanceMutex,
                 heapTop, created, returned>>

\* The constructor of the function-local static runs and the guard is released.
StaticConstruct(t) ==
  /\ pc[t] = "static_ctor"
  /\ created' = [created EXCEPT ![which[t]] = @ + 1]
  /\ guard' = [guard EXCEPT ![which[t]] = "done"]
  /\ pc' = [pc EXCEPT ![t] = "static_return"]
  /\ UNCHANGED <<which, calls, seen, tmp, ret, known, instance, instanceMutex,
                 heapTop, returned>>

\* `return instance;` of a Meyers singleton.
StaticReturn(t) ==
  /\ pc[t] = "static_return"
  /\ ret' = [ret EXCEPT ![t] = StaticAddress(which[t])]
  /\ returned' = [returned EXCEPT ![which[t]] = @ \cup {StaticAddress(which[t])}]
  /\ calls' = [calls EXCEPT ![t] = @ + 1]
  /\ pc' = [pc EXCEPT ![t] = "idle"]
  /\ UNCHANGED <<which, seen, tmp, known, instance, instanceMutex, heapTop,
                 guard, created>>

\* The values an unsynchronised read of `instance` can give thread t: the
\* value in memory, or a stale nullptr while t has not yet observed the store
\* (the read races with the store made under the mutex).
RacyRead(t) == {instance} \cup (IF known[t] THEN {} ELSE {nullptr})

\* `if (instance == nullptr)` outside the lock.
FirstCheck(t) ==
  /\ pc[t] = "check1"
  /\ \E v \in RacyRead(t) :
       /\ seen' = [seen EXCEPT ![t] = v]
       /\ known' = [known EXCEPT ![t] = known[t] \/ v # nullptr]
       /\ pc' = [pc EXCEPT ![t] = IF v = nullptr THEN "lock" ELSE "return"]
  /\ UNCHANGED <<which, calls, tmp, ret, instance, instanceMutex, heapTop,
                 guard, created, returned>>

\* `lock_guard<mutex> lock(instanceMutex);`
Lock(t) ==
  /\ pc[t] = "lock"
  /\ instanceMutex = 0
  /\ instanceMutex' = t
  /\ pc' = [pc EXCEPT ![t] = "check2"]
  /\ UNCHANGED <<which, calls, seen, tmp, ret, known, instance, heapTop, guard,
                 created, returned>>

SecondCheckSkipped(inst) == TRUE

\* `if (instance == nullptr)` under the lock.
SecondCheckPasses(inst) == inst = nullptr

SecondCheck(t) ==
  /\ pc[t] = "check2"
  /\ pc' = [pc EXCEPT ![t] = IF SecondCheckPasses(instance) THEN "new" ELSE "unlock"]
  /\ known' = [known EXCEPT ![t] = known[t] \/ instance # nullptr]
  /\ UNCHANGED <<which, calls, seen, tmp, ret, instance, instanceMutex, heapTop,
                 guard, created, returned>>

\* `new CacheManager()`: operator new gives a fresh address.  The compiler may
\* store the address into `instance` before or after the constructor has run.
New(t) ==
  /\ pc[t] = "new"
  /\ heapTop' = heapTop + 1
  /\ tmp' = [tmp EXCEPT ![t] = heapTop + 1]
  /\ \E order \in {"ctor_first", "store_first"} :
       pc' = [pc EXCEPT ![t] = order]
  /\ UNCHANGED <<which, calls, seen, ret, known, instance, instanceMutex, guard,
                 created, returned>>

\* CacheManager::CacheManager() runs.
Construct(t) ==
  /\ pc[t] \in {"ctor_first", "ctor_second"}
  /\ created' = [created EXCEPT !["CacheManager"] = @ + 1]
  /\ pc' = [pc EXCEPT ![t] = IF pc[t] = "ctor_first" THEN "store_second" ELSE "unlock"]
  /\ UNCHANGED <<which, calls, seen, tmp, ret, known, instance, instanceMutex,
                 heapTop, guard, returned>>

\* `instance = ...;`
Publish(t) ==
  /\ pc[t] \in {"store_first", "store_second"}
  /\ instance' = tmp[t]
  /\ known' = [known EXCEPT ![t] = TRUE]
  /\ pc' = [pc EXCEPT ![t] = IF pc[t] = "store_first" THEN "ctor_second" ELSE "unlock"]
  /\ UNCHANGED <<which, calls, seen, tmp, ret, instanceMutex, heapTop, guard,
                 created, returned>>

\* The lock_guard goes out of scope.
Unlock(t) ==
  /\ pc[t] = "unlock"
  /\ instanceMutex = t
  /\ instanceMutex' = 0
  /\ pc' = [pc EXCEPT ![t] = "return"]
  /\ UNCHANGED <<which, calls, seen, tmp, ret, known, instance, heapTop, guard,
                 created, returned>>

\* `return instance;` of CacheManager: the value in memory, or the value the
\* first check read when the compiler keeps it in a register.
Return(t) ==
  /\ pc[t] = "return"
  /\ \E v \in {instance} \cup (IF seen[t] # nullptr THEN {seen[t]} ELSE {}) :
       /\ ret' = [ret EXCEPT ![t] = v]
       /\ returned' = [returned EXCEPT !["CacheManager"] = @ \cup {v}]
  /\ calls' = [calls EXCEPT ![t] = @ + 1]
  /\ pc' = [pc EXCEPT ![t] = "idle"]
  /\ UNCHANGED <<which, seen, tmp, known, instance, instanceMutex, heapTop,
                 guard, created>>

NextSingleton ==
  /\ UNCHANGED <<bldVars, cofVars, copyVars, smartVars, imageVars, docVars,
                 weatherVars, documentVars, tcpVars, editorVars, flyVars>>
  /\ \E t \in Threads :
       \/ CallGetInstance(t)
       \/ StaticEnter(t)
       \/ StaticConstruct(t)
       \/ StaticReturn(t)
       \/ FirstCheck(t)
       \/ Lock(t)
       \/ SecondCheck(t)
       \/ New(t)
       \/ Construct(t)
       \/ Publish(t)
       \/ Unlock(t)
       \/ Return(t)

(***************************************************************************)
(* creational/06_builder_pattern.cpp                                       *)
(***************************************************************************)
Urls == {"", "https://api.example.com/users"}
Methods == {"GET", "POST", "PUT", "DELETE", "PATCH"}
Timeouts == {-1, 0}
RetryCounts == {0, 3}
Bodies == {"", "{}"}
HeaderKeys == {"Authorization"}
HeaderValues == {"Bearer token123"}
ParamKeys == {"page"}
ParamValues == {"1"}

\* std::map<string,string>::operator[] followed by assignment.
MapPut(m, key, value) ==
  [k \in DOMAIN m \cup {key} |-> IF k = key THEN value ELSE m[k]]

EmptyMap == [k \in {} |-> ""]

\* HttpRequest::HttpRequest(): the member initialiser list and the default
\* constructors of the strings and maps.
HttpRequest ==
  [url |-> "", method |-> "GET", headers |-> EmptyMap, queryParams |-> EmptyMap,
   body |-> "", timeout |-> 3000, followRedirects |-> TRUE, maxRetries |-> 0]

NoOutcome == [kind |-> "none", what |-> "", req |-> <<>>, from |-> <<>>]

InitBuilder ==
  /\ request = HttpRequest
  /\ asked = [url |-> "", method |-> "GET", headers |-> EmptyMap,
              queryParams |-> EmptyMap, body |-> "", timeout |-> 3000,
              followRedirects |-> TRUE, maxRetries |-> 0]
  /\ outcome = NoOutcome

setUrl(url) ==
  /\ request' = [request EXCEPT !.url = url]
  /\ asked' = [asked EXCEPT !.url = url]
  /\ UNCHANGED outcome

setMethod(method) ==
  /\ request' = [request EXCEPT !.method = method]
  /\ asked' = [asked EXCEPT !.method = method]
  /\ UNCHANGED outcome

addHeader(key, value) ==
  /\ request' = [request EXCEPT !.headers = MapPut(@, key, value)]
  /\ asked' = [asked EXCEPT !.headers = MapPut(@, key, value)]
  /\ UNCHANGED outcome

addQueryParam(key, value) ==
  /\ request' = [request EXCEPT !.queryParams = MapPut(@, key, value)]
  /\ asked' = [asked EXCEPT !.queryParams = MapPut(@, key, value)]
  /\ UNCHANGED outcome

setBody(body) ==
  /\ request' = [request EXCEPT !.body = body]
  /\ asked' = [asked EXCEPT !.body = body]
  /\ UNCHANGED outcome

setTimeout(timeout) ==
  /\ request' = [request EXCEPT !.timeout = timeout]
  /\ asked' = [asked EXCEPT !.timeout = timeout]
  /\ UNCHANGED outcome

setFollowRedirects(follow) ==
  /\ request' = [request EXCEPT !.followRedirects = follow]
  /\ asked' = [asked EXCEPT !.followRedirects = follow]
  /\ UNCHANGED outcome

setMaxRetries(retries) ==
  /\ request' = [request EXCEPT !.maxRetries = retries]
  /\ asked' = [asked EXCEPT !.maxRetries = retries]
  /\ UNCHANGED outcome

TimeoutRejectedOffByOne(timeout) == timeout <= 0

\* `if (request.timeout < 0)`
TimeoutRejected(timeout) == timeout < 0

\* `request.method != "GET" && ... && request.method != "DELETE"`
MethodRejected(method) ==
  method # "GET" /\ method # "POST" /\ method # "PUT" /\ method # "DELETE"

\* HttpRequestBuilder::build(): the three checks in order, each throwing a
\* runtime_error, then `return request;`.
buildResult(r) ==
  IF r.url = "" THEN [kind |-> "threw", what |-> "URL is required!", req |-> <<>>]
  ELSE IF MethodRejected(r.method)
    THEN [kind |-> "threw", what |-> "Invalid HTTP method!", req |-> <<>>]
  ELSE IF TimeoutRejected(r.timeout)
    THEN [kind |-> "threw", what |-> "Timeout cannot be negative!", req |-> <<>>]
  ELSE [kind |-> "returned", what |-> "", req |-> <<r>>]

build ==
  /\ outcome' = [kind |-> buildResult(request).kind,
                 what |-> buildResult(request).what,
                 req |-> buildResult(request).req,
                 from |-> <<asked>>]
  /\ UNCHANGED <<request, asked>>

NextBuilder ==
  /\ UNCHANGED <<singVars, cofVars, copyVars, smartVars, imageVars, docVars,
                 weatherVars, documentVars, tcpVars, editorVars, flyVars>>
  /\ \/ \E url \in Urls : setUrl(url)
     \/ \E method \in Methods : setMethod(method)
     \/ \E key \in HeaderKeys, value \in HeaderValues : addHeader(key, value)
     \/ \E key \in ParamKeys, value \in ParamValues : addQueryParam(key, value)
     \/ \E body \in Bodies : setBody(body)
     \/ \E timeout \in Timeouts : setTimeout(timeout)
     \/ \E follow \in BOOLEAN : setFollowRedirects(follow)
     \/ \E retries \in RetryCounts : setMaxRetries(retries)
     \/ build

(***************************************************************************)
(* Decorator example: SimpleCoffee and its decorators.  getCost() is       *)
(* computed in IEEE-754 binary64 (double), round to nearest, ties to even. *)
(* A double is held exactly, as a count of units of 2^-60 written in three *)
(* limbs <<h, m, l>> of 22 bits each (h most significant).                 *)
(***************************************************************************)
Base == 2^22

\* Exact sum of two limb numbers.
Add3(a, b) ==
  LET l == a[3] + b[3]
      m == a[2] + b[2] + (l \div Base)
      h == a[1] + b[1] + (m \div Base)
  IN  <<h, m % Base, l % Base>>

\* The largest power of two not above h.
RECURSIVE TopBit(_)
TopBit(h) == IF h < 2 THEN 1 ELSE 2 * TopBit(h \div 2)

\* The spacing of doubles around x, in units: 2^-52 of its leading bit.
Ulp(x) == TopBit(x[1]) \div 256

\* Rounding of an exact value to the nearest double, ties to even; sticky
\* says that the exact value has a non-zero part below one unit.
RoundToDouble(x, sticky) ==
  LET ulp == Ulp(x)
      r == x[3] % ulp
      up == \/ 2 * r > ulp
            \/ 2 * r = ulp /\ (sticky \/ (x[3] \div ulp) % 2 = 1)
  IN  Add3(<<x[1], x[2], x[3] - r>>, IF up THEN <<0, 0, ulp>> ELSE <<0, 0, 0>>)

\* The double a decimal literal of `tenths` tenths denotes (2.0 is 20, 0.5
\* is 5): tenths * 2^60 / 10 by long division, then rounded.
Literal(tenths) ==
  LET qh == (tenths * 2^16) \div 10
      r1 == (tenths * 2^16) % 10
      qm == (r1 * Base) \div 10
      r2 == (r1 * Base) % 10
      ql == (r2 * Base) \div 10
      r3 == (r2 * Base) % 10
  IN  RoundToDouble(<<qh, qm, ql>>, r3 # 0)

\* operator+ on doubles.
DoubleAdd(a, b) == RoundToDouble(Add3(a, b), FALSE)

Decorators == {"Milk", "Sugar", "WhippedCream", "Caramel"}

\* The literal each concrete decorator adds in getCost(), in tenths.
MilkPrice == 5
SugarPrice == 2
WhippedCreamPrice == 7
CaramelPrice == 6
SimpleCoffeePrice == 20

AddOn(d) ==
  CASE d = "Milk" -> Literal(MilkPrice)
    [] d = "Sugar" -> Literal(SugarPrice)
    [] d = "WhippedCream" -> Literal(WhippedCreamPrice)
    [] d = "Caramel" -> Literal(CaramelPrice)

\* Every decorator left with CoffeeDecorator::getCost(), which only forwards.
getCostForwardOnly(c) == Literal(SimpleCoffeePrice)

\* Coffee::getCost() by virtual dispatch down the chain of coffee_ pointers:
\* a decorator returns coffee_->getCost() + its literal, SimpleCoffee 2.0.
RECURSIVE getCost(_)
getCost(c) ==
  IF c = <<>> THEN Literal(SimpleCoffeePrice)
  ELSE DoubleAdd(getCost(SubSeq(c, 1, Len(c) - 1)), AddOn(c[Len(c)]))

Orders == {1, 2}

InitCoffee == coffee = [o \in Orders |-> <<>>]

\* `coffee = std::make_unique<SimpleCoffee>();`
NewSimpleCoffee(o) ==
  /\ coffee[o] # <<>>
  /\ coffee' = [coffee EXCEPT ![o] = <<>>]

\* `coffee = std::make_unique<XDecorator>(std::move(coffee));`
Wrap(o, d) ==
  /\ Len(coffee[o]) < MaxLayers
  /\ coffee' = [coffee EXCEPT ![o] = Append(@, d)]

WrapMilk(o) == Wrap(o, "Milk")
WrapSugar(o) == Wrap(o, "Sugar")
WrapWhippedCream(o) == Wrap(o, "WhippedCream")
WrapCaramel(o) == Wrap(o, "Caramel")

NextCoffee ==
  /\ UNCHANGED <<singVars, bldVars, copyVars, smartVars, imageVars, docVars,
                 weatherVars, documentVars, tcpVars, editorVars, flyVars>>
  /\ \E o \in Orders :
       \/ NewSimpleCoffee(o)
       \/ WrapMilk(o)
       \/ WrapSugar(o)
       \/ WrapWhippedCream(o)
       \/ WrapCaramel(o)

(***************************************************************************)
(* Prototype example, namespace copy_demonstration: objects owning a       *)
(* Resource through a raw pointer.  A pointer is the index of the          *)
(* allocation it points at.  Deleting a Resource twice is undefined        *)
(* behaviour: the model records it and follows the program no further.     *)
(***************************************************************************)
ResourceData == {"Original", "Other"}

InitCopy ==
  /\ objs = <<>>
  /\ res = <<>>
  /\ undefined = FALSE

\* `new Resource(d)`: the heap after the allocation.
NewResource(d) == Append(res, [data |-> d, deletes |-> 0])

\* `delete resource;` through pointer r.
Delete(r) ==
  /\ res' = [res EXCEPT ![r].deletes = @ + 1]
  /\ undefined' = (res[r].deletes > 0)

CanCreate == ~undefined /\ Len(objs) < MaxObjects

\* ShallowCopyObject(const string &data)
ShallowCopyObject(data) ==
  /\ CanCreate
  /\ res' = NewResource(data)
  /\ objs' = Append(objs, [cls |-> "Shallow", resource |-> Len(res) + 1,
                           alive |-> TRUE, from |-> 0, onHeap |-> FALSE])
  /\ UNCHANGED undefined

\* ShallowCopyObject(const ShallowCopyObject &other): resource = other.resource
ShallowCopy(other) ==
  /\ CanCreate
  /\ other \in 1..Len(objs)
  /\ objs[other].cls = "Shallow" /\ objs[other].alive
  /\ objs' = Append(objs, [cls |-> "Shallow", resource |-> objs[other].resource,
                           alive |-> TRUE, from |-> other, onHeap |-> FALSE])
  /\ UNCHANGED <<res, undefined>>

\* DeepCopyObject(const string &data)
DeepCopyObject(data) ==
  /\ CanCreate
  /\ res' = NewResource(data)
  /\ objs' = Append(objs, [cls |-> "Deep", resource |-> Len(res) + 1,
                           alive |-> TRUE, from |-> 0, onHeap |-> FALSE])
  /\ UNCHANGED undefined

DeepCopySharesPointer(other) ==
  [heap |-> res, resource |-> objs[other].resource]

\* `resource = new Resource(other.resource->data);`: the heap and the new
\* object's pointer after the copy constructor's body.
DeepCopyResource(other) ==
  [heap |-> NewResource(res[objs[other].resource].data),
   resource |-> Len(res) + 1]

\* DeepCopyObject(const DeepCopyObject &other), for an object with automatic
\* storage (heap = FALSE) or for the one clone() allocates (heap = TRUE).
DeepCopyConstruct(other, heap) ==
  /\ CanCreate
  /\ other \in 1..Len(objs)
  /\ objs[other].cls = "Deep" /\ objs[other].alive
  /\ res' = DeepCopyResource(other).heap
  /\ objs' = Append(objs, [cls |-> "Deep",
                           resource |-> DeepCopyResource(other).resource,
                           alive |-> TRUE, from |-> other, onHeap |-> heap])
  /\ UNCHANGED undefined

\* `DeepCopyObject obj2(obj1);`
DeepCopy(other) == DeepCopyConstruct(other, FALSE)

\* DeepCopyObject::clone(): `return new DeepCopyObject(*this);`
clone(this) == DeepCopyConstruct(this, TRUE)

\* ~ShallowCopyObject() and ~DeepCopyObject(): `delete resource;`, run when
\* the object leaves its scope or, for a clone, by `delete obj3;`.
Destroy(o) ==
  /\ ~undefined
  /\ o \in 1..Len(objs)
  /\ objs[o].alive
  /\ objs' = [objs EXCEPT ![o].alive = FALSE]
  /\ Delete(objs[o].resource)

NextCopy ==
  /\ UNCHANGED <<singVars, bldVars, cofVars, smartVars, imageVars, docVars,
                 weatherVars, documentVars, tcpVars, editorVars, flyVars>>
  /\ \/ \E d \in ResourceData : ShallowCopyObject(d)
     \/ \E d \in ResourceData : DeepCopyObject(d)
     \/ \E o \in 1..MaxObjects : ShallowCopy(o)
     \/ \E o \in 1..MaxObjects : DeepCopy(o)
     \/ \E o \in 1..MaxObjects : clone(o)
     \/ \E o \in 1..MaxObjects : Destroy(o)

(***************************************************************************)
(* structural/07_proxy_pattern.cpp: SmartReferenceProxy                    *)
(***************************************************************************)
InitSmart ==
  /\ proxies = <<>>
  /\ counters = <<>>
  /\ largeObjects = <<>>
  /\ danglingUse = FALSE

\* explicit SmartReferenceProxy(const std::string &data):
\* object_(make_shared<LargeObject>(data)), referenceCount_(new int(1))
SmartReferenceProxy(data) ==
  /\ ~danglingUse
  /\ Len(proxies) < MaxProxies
  /\ largeObjects' = Append(largeObjects, [data |-> data, useCount |-> 1])
  /\ counters' = Append(counters, [value |-> 1, frees |-> 0])
  /\ proxies' = Append(proxies, [object_ |-> Len(largeObjects) + 1,
                                 referenceCount_ |-> Len(counters) + 1,
                                 alive |-> TRUE])
  /\ UNCHANGED danglingUse

CopyKeepsCount(count) == count

\* `(*referenceCount_)++;`
CopyIncrement(count) == count + 1

\* SmartReferenceProxy(const SmartReferenceProxy &other)
SmartCopy(other) ==
  /\ ~danglingUse
  /\ Len(proxies) < MaxProxies
  /\ other \in 1..Len(proxies)
  /\ proxies[other].alive
  /\ LET c == proxies[other].referenceCount_
         o == proxies[other].object_
     IN  /\ largeObjects' = [largeObjects EXCEPT ![o].useCount = @ + 1]
         /\ counters' = [counters EXCEPT ![c].value = CopyIncrement(@)]
         /\ danglingUse' = (counters[c].frees > 0)
         /\ proxies' = Append(proxies, [object_ |-> o, referenceCount_ |-> c,
                                        alive |-> TRUE])

\* `if (*referenceCount_ == 0)`
LastReference(count) == count = 0

\* ~SmartReferenceProxy(): decrement, delete the counter at zero; then the
\* member object_ is destroyed, which drops the shared_ptr's use count.
SmartDestroy(p) ==
  /\ ~danglingUse
  /\ p \in 1..Len(proxies)
  /\ proxies[p].alive
  /\ LET c == proxies[p].referenceCount_
         o == proxies[p].object_
         n == counters[c].value - 1
     IN  /\ counters' = [counters EXCEPT
                           ![c].value = n,
                           ![c].frees = IF LastReference(n) THEN @ + 1 ELSE @]
         /\ danglingUse' = (counters[c].frees > 0)
         /\ largeObjects' = [largeObjects EXCEPT ![o].useCount = @ - 1]
  /\ proxies' = [proxies EXCEPT ![p].alive = FALSE]

ProxyData == {"Large data block"}

NextSmart ==
  /\ UNCHANGED <<singVars, bldVars, cofVars, copyVars, imageVars, docVars,
                 weatherVars, documentVars, tcpVars, editorVars, flyVars>>
  /\ \/ \E d \in ProxyData : SmartReferenceProxy(d)
     \/ \E p \in 1..MaxProxies : SmartCopy(p)
     \/ \E p \in 1..MaxProxies : SmartDestroy(p)

(***************************************************************************)
(* structural/07_proxy_pattern.cpp: ImageProxy (virtual proxy)             *)
(***************************************************************************)
ImageFiles == {"large_image1.jpg", "large_image2.jpg"}

InitImage ==
  /\ imageProxy = [f \in ImageFiles |-> FALSE]
  /\ realImage_ = [f \in ImageFiles |-> FALSE]
  /\ loads = [f \in ImageFiles |-> 0]
  /\ displays = [f \in ImageFiles |-> 0]
  /\ rotations = [f \in ImageFiles |-> 0]

\* explicit ImageProxy(const std::string &filename): only stores the name.
ImageProxy(f) ==
  /\ ~imageProxy[f]
  /\ imageProxy' = [imageProxy EXCEPT ![f] = TRUE]
  /\ UNCHANGED <<realImage_, loads, displays, rotations>>

ReloadsEveryTime(loaded) == TRUE

\* `if (!realImage_)`
NotLoaded(loaded) == ~loaded

\* ImageProxy::ensureLoaded(): make_unique<RealImage>(filename_) runs the
\* RealImage constructor, which calls loadFromDisk().
loadsAfterEnsureLoaded(f) ==
  IF NotLoaded(realImage_[f]) THEN loads[f] + 1 ELSE loads[f]

\* ImageProxy::display()
display(f) ==
  /\ imageProxy[f]
  /\ displays[f] + rotations[f] < MaxAccess
  /\ loads' = [loads EXCEPT ![f] = loadsAfterEnsureLoaded(f)]
  /\ realImage_' = [realImage_ EXCEPT ![f] = TRUE]
  /\ displays' = [displays EXCEPT ![f] = @ + 1]
  /\ UNCHANGED <<imageProxy, rotations>>

\* ImageProxy::rotate(int degrees)
rotate(f) ==
  /\ imageProxy[f]
  /\ displays[f] + rotations[f] < MaxAccess
  /\ loads' = [loads EXCEPT ![f] = loadsAfterEnsureLoaded(f)]
  /\ realImage_' = [realImage_ EXCEPT ![f] = TRUE]
  /\ rotations' = [rotations EXCEPT ![f] = @ + 1]
  /\ UNCHANGED <<imageProxy, displays>>

NextImage ==
  /\ UNCHANGED <<singVars, bldVars, cofVars, copyVars, smartVars, docVars,
                 weatherVars, documentVars, tcpVars, editorVars, flyVars>>
  /\ \E f \in ImageFiles :
       \/ ImageProxy(f)
       \/ display(f)
       \/ rotate(f)

(***************************************************************************)
(* structural/07_proxy_pattern.cpp: ProtectedDocumentProxy                 *)
(***************************************************************************)
Documents == {"sensitive.txt", "admin.txt"}
Permissions == {"READ", "WRITE", "DELETE"}
Contents == {"Attempt to modify", "Admin can modify"}
DocOps == {"read", "write", "deleteDocument"}

\* enum class Permission { READ, WRITE, DELETE } under static_cast<int>.
PermissionInt(p) ==
  CASE p = "READ" -> 0
    [] p = "WRITE" -> 1
    [] p = "DELETE" -> 2

NoCall == [op |-> "none", reached |-> FALSE, before |-> ""]

\* No proxy has been constructed yet.
InitDocProxy ==
  /\ userPermission_ = [d \in Documents |-> "none"]
  /\ content_ = [d \in Documents |-> ""]
  /\ forwarded = [d \in Documents |-> [op \in DocOps |-> 0]]
  /\ lastCall = [d \in Documents |-> NoCall]

\* ProtectedDocumentProxy(name, permission): a RealDocument with empty
\* content; the permission is chosen by the caller.
ProtectedDocumentProxy(d, permission) ==
  /\ userPermission_[d] = "none"
  /\ userPermission_' = [userPermission_ EXCEPT ![d] = permission]
  /\ UNCHANGED <<content_, forwarded, lastCall>>

hasPermissionStrict(user, required) ==
  PermissionInt(user) > PermissionInt(required)

\* ProtectedDocumentProxy::hasPermission
hasPermission(user, required) ==
  PermissionInt(user) >= PermissionInt(required)

\* One call on the proxy: the guard, then the RealDocument's method when the
\* guard lets it through.  Only RealDocument::write assigns content_.
ProxyCall(d, op, required, newContent) ==
  /\ userPermission_[d] # "none"
  /\ forwarded[d][op] < MaxForwarded
  /\ LET ok == hasPermission(userPermission_[d], required)
     IN  /\ lastCall' = [lastCall EXCEPT ![d] =
                           [op |-> op, reached |-> ok, before |-> content_[d]]]
         /\ forwarded' = [forwarded EXCEPT ![d][op] = IF ok THEN @ + 1 ELSE @]
         /\ content_' = [content_ EXCEPT ![d] = IF ok THEN newContent ELSE @]
  /\ UNCHANGED userPermission_

\* ProtectedDocumentProxy::read()
read(d) == ProxyCall(d, "read", "READ", content_[d])

\* ProtectedDocumentProxy::write(content)
write(d, content) == ProxyCall(d, "write", "WRITE", content)

\* ProtectedDocumentProxy::deleteDocument()
deleteDocument(d) == ProxyCall(d, "deleteDocument", "DELETE", content_[d])

NextDocProxy ==
  /\ UNCHANGED <<singVars, bldVars, cofVars, copyVars, smartVars, imageVars,
                 weatherVars, documentVars, tcpVars, editorVars, flyVars>>
  /\ \E d \in Documents :
       \/ \E p \in Permissions : ProtectedDocumentProxy(d, p)
       \/ read(d)
       \/ \E c \in Contents : write(d, c)
       \/ deleteDocument(d)

(***************************************************************************)
(* structural/07_proxy_pattern.cpp: CachingWeatherProxy                    *)
(***************************************************************************)
Cities == {"London", "Paris", "Tokyo"}

InitWeather ==
  /\ cache_ = EmptyMap
  /\ serviceCalls = [c \in Cities |-> 0]
  /\ requests = [c \in Cities |-> 0]
  /\ firstAnswer = EmptyMap
  /\ lastAnswer = [city |-> "", weather |-> ""]

\* RealWeatherService::getWeather: the stand-in for the remote API.
RealWeather(city) == "Sunny, 25C"

NeverCached(m, city) == FALSE

\* `it != cache_.end()` after `cache_.find(city)`
CacheHit(m, city) == city \in DOMAIN m

\* CachingWeatherProxy::getWeather(city)
getWeather(city) ==
  /\ requests[city] < MaxRequests
  /\ requests' = [requests EXCEPT ![city] = @ + 1]
  /\ IF CacheHit(cache_, city)
       THEN /\ lastAnswer' = [city |-> city, weather |-> cache_[city]]
            /\ UNCHANGED <<cache_, serviceCalls>>
       ELSE /\ serviceCalls' = [serviceCalls EXCEPT ![city] = @ + 1]
            /\ cache_' = MapPut(cache_, city, RealWeather(city))
            /\ lastAnswer' = [city |-> city, weather |-> RealWeather(city)]
  /\ firstAnswer' = IF city \in DOMAIN firstAnswer THEN firstAnswer
                    ELSE MapPut(firstAnswer, city, lastAnswer'.weather)

NextWeather ==
  /\ UNCHANGED <<singVars, bldVars, cofVars, copyVars, smartVars, imageVars,
                 docVars, documentVars, tcpVars, editorVars, flyVars>>
  /\ \E city \in Cities : getWeather(city)

(***************************************************************************)
(* behavioral/06_strategy_pattern.cpp: Document and its DocumentState      *)
(* classes.  Document::edit, publish, archive and restore delegate to the  *)
(* state object state_ points at.                                          *)
(***************************************************************************)
Texts == {"First draft", "Updated content", "Hacked"}

\* Document::Document(title): setState(make_unique<DraftState>()), content_
\* default constructed.
InitDocument ==
  /\ document = [state_ |-> "DRAFT", content_ |-> ""]
  /\ lastOp = [op |-> "none", text |-> "", before |-> document]
  /\ trail = <<"DRAFT">>

\* DraftState
DraftState_edit(doc, text) == [doc EXCEPT !.content_ = text]
DraftState_publish(doc) == [doc EXCEPT !.state_ = "PUBLISHED"]
DraftState_archive(doc) == [doc EXCEPT !.state_ = "ARCHIVED"]
DraftState_restore(doc) == doc

PublishedState_editWrites(doc, text) == [doc EXCEPT !.content_ = text]

\* PublishedState
PublishedState_edit(doc, text) == doc
PublishedState_publish(doc) == doc
PublishedState_archive(doc) == [doc EXCEPT !.state_ = "ARCHIVED"]
PublishedState_restore(doc) == [doc EXCEPT !.state_ = "DRAFT"]

ArchivedState_publishAllowed(doc) == [doc EXCEPT !.state_ = "PUBLISHED"]

\* ArchivedState
ArchivedState_edit(doc, text) == doc
ArchivedState_publish(doc) == doc
ArchivedState_archive(doc) == doc
ArchivedState_restore(doc) == [doc EXCEPT !.state_ = "DRAFT"]

\* The last MaxTrail entries of a sequence.
Window(q) == IF Len(q) > MaxTrail THEN SubSeq(q, Len(q) - MaxTrail + 1, Len(q)) ELSE q

\* Document::setState as seen from outside: the trail grows when the state
\* object is replaced by one of another class.
Recorded(op, text, doc) ==
  /\ document' = doc
  /\ lastOp' = [op |-> op, text |-> text, before |-> document]
  /\ trail' = IF doc.state_ # document.state_
                THEN Window(Append(trail, doc.state_)) ELSE trail

\* Document::edit(text): state_->edit(*this, text)
Document_edit(text) ==
  Recorded("edit", text,
    CASE document.state_ = "DRAFT" -> DraftState_edit(document, text)
      [] document.state_ = "PUBLISHED" -> PublishedState_edit(document, text)
      [] document.state_ = "ARCHIVED" -> ArchivedState_edit(document, text))

\* Document::publish(): state_->publish(*this)
Document_publish ==
  Recorded("publish", "",
    CASE document.state_ = "DRAFT" -> DraftState_publish(document)
      [] document.state_ = "PUBLISHED" -> PublishedState_publish(document)
      [] document.state_ = "ARCHIVED" -> ArchivedState_publish(document))

\* Document::archive(): state_->archive(*this)
Document_archive ==
  Recorded("archive", "",
    CASE document.state_ = "DRAFT" -> DraftState_archive(document)
      [] document.state_ = "PUBLISHED" -> PublishedState_archive(document)
      [] document.state_ = "ARCHIVED" -> ArchivedState_archive(document))

\* Document::restore(): state_->restore(*this)
Document_restore ==
  Recorded("restore", "",
    CASE document.state_ = "DRAFT" -> DraftState_restore(document)
      [] document.state_ = "PUBLISHED" -> PublishedState_restore(document)
      [] document.state_ = "ARCHIVED" -> ArchivedState_restore(document))

NextDocument ==
  /\ UNCHANGED <<singVars, bldVars, cofVars, copyVars, smartVars, imageVars,
                 docVars, weatherVars, tcpVars, editorVars, flyVars>>
  /\ \/ \E text \in Texts : Document_edit(text)
     \/ Document_publish
     \/ Document_archive
     \/ Document_restore

(***************************************************************************)
(* behavioral/06_strategy_pattern.cpp: TCPConnection and its state classes *)
(***************************************************************************)
TcpData == {"Hello", "World"}

\* TCPConnection::TCPConnection(): state_(make_unique<ClosedState>())
InitTcp ==
  /\ tcpState = "Closed"
  /\ tcpCalls = <<>>
  /\ tcpTrail = <<"Closed">>

\* ClosedState: the state after each call.
ClosedState_open == "Listen"
ClosedState_send == "Closed"
ClosedState_close == "Closed"

\* ListenState
ListenState_open == "Listen"
ListenState_send == "Established"
ListenState_close == "Closed"

EstablishedState_closeAtOnce == "Closed"

\* EstablishedState
EstablishedState_open == "Established"
EstablishedState_send == "Established"
EstablishedState_close == "CloseWait"

\* CloseWaitState
CloseWaitState_open == "CloseWait"
CloseWaitState_send == "CloseWait"
CloseWaitState_close == "Closed"

\* TCPConnection::setState as seen from outside: the trail grows when a
\* state method has called it.
TcpRecorded(op, data, next) ==
  /\ tcpState' = next
  /\ tcpCalls' = Window(Append(tcpCalls,
       [op |-> op, data |-> data, before |-> tcpState, after |-> next]))
  /\ tcpTrail' = IF next # tcpState THEN Window(Append(tcpTrail, next))
                 ELSE tcpTrail

\* TCPConnection::open(): state_->open(*this)
TCPConnection_open ==
  TcpRecorded("open", "",
    CASE tcpState = "Closed" -> ClosedState_open
      [] tcpState = "Listen" -> ListenState_open
      [] tcpState = "Established" -> EstablishedState_open
      [] tcpState = "CloseWait" -> CloseWaitState_open)

\* TCPConnection::send(data): state_->send(*this, data)
TCPConnection_send(data) ==
  TcpRecorded("send", data,
    CASE tcpState = "Closed" -> ClosedState_send
      [] tcpState = "Listen" -> ListenState_send
      [] tcpState = "Established" -> EstablishedState_send
      [] tcpState = "CloseWait" -> CloseWaitState_send)

\* TCPConnection::close(): state_->close(*this)
TCPConnection_close ==
  TcpRecorded("close", "",
    CASE tcpState = "Closed" -> ClosedState_close
      [] tcpState = "Listen" -> ListenState_close
      [] tcpState = "Established" -> EstablishedState_close
      [] tcpState = "CloseWait" -> CloseWaitState_close)

NextTcp ==
  /\ UNCHANGED <<singVars, bldVars, cofVars, copyVars, smartVars, imageVars,
                 docVars, weatherVars, documentVars, editorVars, flyVars>>
  /\ \/ TCPConnection_open
     \/ \E data \in TcpData : TCPConnection_send(data)
     \/ TCPConnection_close

(***************************************************************************)
(* behavioral/06_strategy_pattern.cpp: TextEditor (originator),            *)
(* TextEditorMemento and TextEditorHistory (caretaker)                     *)
(***************************************************************************)
EditorTexts == {<<"a">>, <<"b", "c">>}
CursorArgs == (0 - 1)..(MaxContent + 1)

\* TextEditorMemento(content, cursor).  timestamp_ is the wall clock at
\* construction; restoreState never reads it.
TextEditorMemento(content, cursor) == [content_ |-> content, cursorPos_ |-> cursor]

NoMemento == TextEditorMemento(<<>>, 0 - 1)

\* What a read of history_[-1] on an empty vector can hand back.
WildMementos ==
  {TextEditorMemento(<<>>, MaxContent), TextEditorMemento(<<"a">>, 0 - 1)}

\* TextEditor(): cursorPos_(0); TextEditorHistory: currentIndex_ = -1
InitEditor ==
  /\ editor = [content_ |-> <<>>, cursorPos_ |-> 0]
  /\ history = [history_ |-> <<>>, currentIndex_ |-> 0 - 1]
  /\ savedFrom = <<>>
  /\ edLastOp = "none"
  /\ histLast = [op |-> "none", ok |-> FALSE, discarded |-> 0, undone |-> NoMemento]
  /\ edCrashed = FALSE

\* std::string::insert(pos, text), pos <= size()
StringInsert(s, pos, text) ==
  SubSeq(s, 1, pos) \o text \o SubSeq(s, pos + 1, Len(s))

\* std::string::erase(pos, 1), pos < size()
StringErase(s, pos) == SubSeq(s, 1, pos) \o SubSeq(s, pos + 2, Len(s))

Min(a, b) == IF a < b THEN a ELSE b
Max(a, b) == IF a > b THEN a ELSE b

EditorStep(op) ==
  /\ ~edCrashed
  /\ edLastOp' = op

\* TextEditor::insertText: string::insert throws std::out_of_range when the
\* position (converted to size_t) is past the end; nothing catches it.
TextEditor_insertText(text) ==
  /\ EditorStep("insertText")
  /\ Len(editor.content_) + Len(text) <= MaxContent
  /\ IF editor.cursorPos_ >= 0 /\ editor.cursorPos_ <= Len(editor.content_)
       THEN /\ editor' = [content_ |-> StringInsert(editor.content_, editor.cursorPos_, text),
                          cursorPos_ |-> editor.cursorPos_ + Len(text)]
            /\ UNCHANGED edCrashed
       ELSE /\ edCrashed' = TRUE
            /\ UNCHANGED editor
  /\ UNCHANGED <<history, savedFrom, histLast>>

\* TextEditor::deleteChar
TextEditor_deleteChar ==
  /\ EditorStep("deleteChar")
  /\ editor' = IF editor.cursorPos_ > 0 /\ editor.cursorPos_ <= Len(editor.content_)
                 THEN [content_ |-> StringErase(editor.content_, editor.cursorPos_ - 1),
                       cursorPos_ |-> editor.cursorPos_ - 1]
                 ELSE editor
  /\ UNCHANGED <<history, savedFrom, histLast, edCrashed>>

\* TextEditor::setCursorPos
TextEditor_setCursorPos(pos) ==
  /\ EditorStep("setCursorPos")
  /\ editor' = [editor EXCEPT !.cursorPos_ = Max(0, Min(pos, Len(editor.content_)))]
  /\ UNCHANGED <<history, savedFrom, histLast, edCrashed>>

\* TextEditor::saveState
TextEditor_saveState == TextEditorMemento(editor.content_, editor.cursorPos_)

RestoreContentOnly(e, memento) == [e EXCEPT !.content_ = memento.content_]

\* TextEditor::restoreState
TextEditor_restoreState(e, memento) ==
  [content_ |-> memento.content_, cursorPos_ |-> memento.cursorPos_]

KeepRedo(h, index) == h

\* history_.erase(history_.begin() + currentIndex_ + 1, history_.end()),
\* under the test currentIndex_ < size - 1
EraseRedo(h, index) == IF index < Len(h) - 1 THEN SubSeq(h, 1, index + 1) ELSE h

\* TextEditorHistory::canUndo, canRedo
TextEditorHistory_canUndo == history.currentIndex_ > 0
TextEditorHistory_canRedo == history.currentIndex_ < Len(history.history_) - 1

\* TextEditorHistory::getCurrentState, on an index inside history_
TextEditorHistory_getCurrentState == history.history_[history.currentIndex_ + 1]

HistoryCall(op, ok) ==
  [op |-> op, ok |-> ok, discarded |-> 0, undone |-> NoMemento]

\* TextEditorHistory::saveState(editor)
TextEditorHistory_saveState ==
  /\ EditorStep("saveState")
  /\ history.currentIndex_ + 2 <= MaxHistory
  /\ history' = [history_ |-> Append(EraseRedo(history.history_, history.currentIndex_),
                                     TextEditor_saveState),
                 currentIndex_ |-> history.currentIndex_ + 1]
  /\ savedFrom' = Append(EraseRedo(savedFrom, history.currentIndex_), editor)
  /\ histLast' = [HistoryCall("saveState", TRUE) EXCEPT
                    !.discarded = Len(history.history_) - history.currentIndex_ - 1]
  /\ UNCHANGED <<editor, edCrashed>>

\* TextEditorHistory::undo
TextEditorHistory_undo ==
  /\ EditorStep("undo")
  /\ IF history.currentIndex_ > 0
       THEN /\ history' = [history EXCEPT !.currentIndex_ = @ - 1]
            /\ histLast' = [HistoryCall("undo", TRUE) EXCEPT
                              !.undone = TextEditorHistory_getCurrentState]
       ELSE /\ UNCHANGED history
            /\ histLast' = HistoryCall("undo", FALSE)
  /\ UNCHANGED <<editor, savedFrom, edCrashed>>

\* TextEditorHistory::redo; the ghost remembers whether it came right after
\* a successful undo, and from which entry that undo had stepped back.
TextEditorHistory_redo ==
  /\ EditorStep("redo")
  /\ IF history.currentIndex_ < Len(history.history_) - 1
       THEN /\ history' = [history EXCEPT !.currentIndex_ = @ + 1]
            /\ histLast' = [HistoryCall("redo", TRUE) EXCEPT
                              !.undone = IF histLast.op = "undo" /\ histLast.ok
                                           THEN histLast.undone ELSE NoMemento]
       ELSE /\ UNCHANGED history
            /\ histLast' = HistoryCall("redo", FALSE)
  /\ UNCHANGED <<editor, savedFrom, edCrashed>>

\* editor.restoreState(history.getCurrentState()), as main() does after undo
\* and redo.  On an empty history getCurrentState reads history_[-1]: the
\* program crashes or the editor takes whatever the read hands back.
RestoreCurrent ==
  /\ EditorStep("restoreState")
  /\ IF history.currentIndex_ >= 0
       THEN /\ editor' = TextEditor_restoreState(editor, TextEditorHistory_getCurrentState)
            /\ UNCHANGED edCrashed
       ELSE \/ /\ edCrashed' = TRUE
               /\ UNCHANGED editor
            \/ /\ \E wild \in WildMementos : editor' = TextEditor_restoreState(editor, wild)
               /\ UNCHANGED edCrashed
  /\ UNCHANGED <<history, savedFrom, histLast>>

NextEditor ==
  /\ UNCHANGED <<singVars, bldVars, cofVars, copyVars, smartVars, imageVars,
                 docVars, weatherVars, documentVars, tcpVars, flyVars>>
  /\ \/ \E text \in EditorTexts : TextEditor_insertText(text)
     \/ TextEditor_deleteChar
     \/ \E pos \in CursorArgs : TextEditor_setCursorPos(pos)
     \/ TextEditorHistory_saveState
     \/ TextEditorHistory_undo
     \/ TextEditorHistory_redo
     \/ RestoreCurrent

(***************************************************************************)
(* unnamed/part_003: the flyweight factories StringPool, ParticleFactory   *)
(* and FormatFactory                                                       *)
(***************************************************************************)
Factories == {"StringPool", "ParticleFactory", "FormatFactory"}

InternArgs == {"Hello", "World"}

ParticleArgs ==
  [name : {"Bullet", "Missile"}, sprite : {"bullet.png", "missile.png"}, color : {255}]

FormatArgs ==
  {[font |-> "Arial", size |-> 12, bold |-> FALSE, italic |-> FALSE, color |-> 0],
   [font |-> "Arial", size |-> 12, bold |-> TRUE, italic |-> FALSE, color |-> 0],
   [font |-> "Arial", size |-> 1, bold |-> FALSE, italic |-> TRUE, color |-> 0],
   [font |-> "Arial_1", size |-> 2, bold |-> FALSE, italic |-> FALSE, color |-> 0]}

InitFlyweight ==
  /\ pool_ = EmptyMap
  /\ types_ = EmptyMap
  /\ formats_ = EmptyMap
  /\ flyHeap = [f \in Factories |-> 0]
  /\ flyFirst = [f \in Factories |-> EmptyMap]
  /\ flyLast = [factory |-> "none", key |-> "", ret |-> nullptr, made |-> FALSE,
                known |-> FALSE]

\* std::to_string(bool): the bool is promoted to int.
BoolToString(b) == IF b THEN "1" ELSE "0"

\* CharacterFormat::getKey
CharacterFormat_getKey(f) ==
  f.font \o "_" \o ToString(f.size) \o "_" \o BoolToString(f.bold) \o "_"
    \o BoolToString(f.italic) \o "_" \o ToString(f.color)

NeverFound(map, key) == FALSE

\* find(key) != end()
Found(map, key) == key \in DOMAIN map

\* make_shared / make_unique: the object is the factory's next one.
MakeObject(factory, value) == [ptr |-> flyHeap[factory] + 1, value |-> value]

\* One request to a factory: what the caller gets and what the model
\* remembers of it.
Requested(factory, map, key, made) ==
  /\ flyHeap' = IF made THEN [flyHeap EXCEPT ![factory] = @ + 1] ELSE flyHeap
  /\ flyFirst' = IF key \in DOMAIN flyFirst[factory] THEN flyFirst
                 ELSE [flyFirst EXCEPT ![factory] = MapPut(@, key, map[key].ptr)]
  /\ flyLast' = [factory |-> factory, key |-> key, ret |-> map[key].ptr,
                 made |-> made, known |-> key \in DOMAIN flyFirst[factory]]

\* StringPool::intern
StringPool_intern(str) ==
  /\ pool_' = IF Found(pool_, str) THEN pool_
              ELSE MapPut(pool_, str, MakeObject("StringPool", str))
  /\ Requested("StringPool", pool_', str, ~Found(pool_, str))
  /\ UNCHANGED <<types_, formats_>>

\* ParticleFactory::getParticleType
ParticleFactory_getParticleType(name, sprite, color) ==
  /\ types_' = IF Found(types_, name) THEN types_
               ELSE MapPut(types_, name,
                      MakeObject("ParticleFactory",
                        [name_ |-> name, sprite_ |-> sprite, color_ |-> color]))
  /\ Requested("ParticleFactory", types_', name, ~Found(types_, name))
  /\ UNCHANGED <<pool_, formats_>>

\* FormatFactory::getFormat
FormatFactory_getFormat(font, size, bold, italic, color) ==
  LET temp == [font |-> font, size |-> size, bold |-> bold, italic |-> italic,
               color |-> color]
      key == CharacterFormat_getKey(temp)
  IN /\ formats_' = IF Found(formats_, key) THEN formats_
                    ELSE MapPut(formats_, key, MakeObject("FormatFactory", temp))
     /\ Requested("FormatFactory", formats_', key, ~Found(formats_, key))
     /\ UNCHANGED <<pool_, types_>>

NextFlyweight ==
  /\ UNCHANGED <<singVars, bldVars, cofVars, copyVars, smartVars, imageVars,
                 docVars, weatherVars, documentVars, tcpVars, editorVars>>
  /\ \/ \E str \in InternArgs : StringPool_intern(str)
     \/ \E p \in ParticleArgs : ParticleFactory_getParticleType(p.name, p.sprite, p.color)
     \/ \E f \in FormatArgs :
          FormatFactory_getFormat(f.font, f.size, f.bold, f.italic, f.color)

Init == InitSingleton /\ InitBuilder /\ InitCoffee /\ InitCopy /\ InitSmart /\ InitImage /\ InitDocProxy /\ InitWeather /\ InitDocument /\ InitTcp /\ InitEditor /\ InitFlyweight

SpecSingleton == Init /\ [][NextSingleton]_vars

SpecBuilder == Init /\ [][NextBuilder]_vars

SpecCoffee == Init /\ [][NextCoffee]_vars

SpecCopy == Init /\ [][NextCopy]_vars

SpecSmart == Init /\ [][NextSmart]_vars

SpecImage == Init /\ [][NextImage]_vars

SpecDocProxy == Init /\ [][NextDocProxy]_vars

SpecWeather == Init /\ [][NextWeather]_vars

SpecDocument == Init /\ [][NextDocument]_vars

SpecTcp == Init /\ [][NextTcp]_vars

SpecEditor == Init /\ [][NextEditor]_vars

SpecFlyweight == Init /\ [][NextFlyweight]_vars

\* C1: every singleton class is constructed at most once and every call of
\* its getInstance(), from any thread in any interleaving, returns the address
\* of that one object (never nullptr, never a second object).
C1_SingleInstance ==
  /\ \A k \in SingletonClasses : created[k] <= 1
  /\ \A k \in MeyersClasses : returned[k] \subseteq {StaticAddress(k)}
  /\ \A k \in MeyersClasses : returned[k] # {} => created[k] = 1
  /\ Cardinality(returned["CacheManager"]) <= 1
  /\ nullptr \notin returned["CacheManager"]
  /\ returned["CacheManager"] \subseteq {instance}
  /\ heapTop <= 1

\* Two threads raced through the unlocked check of CacheManager: one of them
\* took the lock after the other had stored the instance, found it set under
\* the lock, and both calls returned; a Meyers singleton was built as well.
C1_Witness ==
  /\ \E t \in Threads, u \in Threads :
       /\ t # u
       /\ pc[t] = "return" /\ which[t] = "CacheManager"
       /\ seen[t] = nullptr /\ tmp[t] = nullptr
       /\ which[u] = "CacheManager" /\ pc[u] = "idle" /\ calls[u] > 0
       /\ ret[u] = instance /\ instance # nullptr
  /\ created["CacheManager"] = 1
  /\ \E k \in MeyersClasses : created[k] = 1 /\ returned[k] # {}
\* A request as asked for is rejected.
C2_Rejects(a) ==
  \/ a.url = ""
  \/ a.method \notin {"GET", "POST", "PUT", "DELETE"}
  \/ a.timeout < 0

\* C2: build() throws, and returns no request, exactly when the URL asked for
\* is empty, the method is none of GET, POST, PUT, DELETE, or the timeout is
\* negative; otherwise it returns a request holding exactly the values the
\* client set (the defaults GET, 3000, follow redirects, 0 retries if unset).
C2_BuildValidates ==
  outcome.kind # "none" =>
    LET a == outcome.from[1] IN
      IF C2_Rejects(a)
        THEN outcome.kind = "threw" /\ outcome.req = <<>>
        ELSE outcome.kind = "returned" /\ outcome.req = <<a>>

\* build() has thrown for a PATCH request and, on another builder state, has
\* returned a POST request with a zero timeout, a header and three retries.
C2_Witness ==
  /\ outcome.kind = "returned"
  /\ outcome.req[1].method = "POST" /\ outcome.req[1].timeout = 0
  /\ outcome.req[1].maxRetries = 3 /\ ~outcome.req[1].followRedirects
  /\ DOMAIN outcome.req[1].headers # {}
  /\ request.method = "PATCH"

\* The number of layers of kind d in a stack.
C3_Count(c, d) == Cardinality({i \in 1..Len(c) : c[i] = d})

\* Ten times a limb number (exact).
C3_Times10(x) ==
  LET l == 10 * x[3]
      m == 10 * x[2] + (l \div Base)
      h == 10 * x[1] + (m \div Base)
  IN  <<h, m % Base, l % Base>>

\* a <= b on limb numbers.
C3_Leq(a, b) ==
  \/ a[1] < b[1]
  \/ a[1] = b[1] /\ a[2] < b[2]
  \/ a[1] = b[1] /\ a[2] = b[2] /\ a[3] <= b[3]

\* The decimal total of a stack in tenths: 20 + 5, 2, 7, 6 per layer.
C3_Tenths(c) ==
  20 + 5 * C3_Count(c, "Milk") + 2 * C3_Count(c, "Sugar")
     + 7 * C3_Count(c, "WhippedCream") + 6 * C3_Count(c, "Caramel")

C4_DeepOnceShallowTwice ==
  /\ \A i \in 1..Len(objs) : objs[i].cls = "Deep" =>
       /\ res[objs[i].resource].deletes = (IF objs[i].alive THEN 0 ELSE 1)
       /\ \A j \in 1..Len(objs) : j # i => objs[j].resource # objs[i].resource
       /\ objs[i].from # 0 =>
            res[objs[i].resource].data = res[objs[objs[i].from].resource].data
  /\ \A i \in 1..Len(objs) : (objs[i].cls = "Shallow" /\ objs[i].from # 0) =>
       /\ objs[i].resource = objs[objs[i].from].resource
       /\ (~objs[i].alive /\ ~objs[objs[i].from].alive) =>
            (res[objs[i].resource].deletes >= 2 /\ undefined)
  /\ undefined =>
       \E i \in 1..Len(objs) : objs[i].cls = "Shallow" /\ res[objs[i].resource].deletes = 2

\* A DeepCopyObject and its clone have both been destroyed, each Resource
\* deleted once; a ShallowCopyObject and its copy have both been destroyed and
\* their one Resource has been deleted twice.
C4_Witness ==
  /\ Len(objs) = 4
  /\ \A i \in 1..4 : ~objs[i].alive
  /\ \E i \in 1..4, j \in 1..4 :
       /\ objs[i].cls = "Deep" /\ objs[j].cls = "Deep"
       /\ objs[j].from = i /\ objs[j].onHeap
       /\ res[objs[i].resource].deletes = 1 /\ res[objs[j].resource].deletes = 1
  /\ \E i \in 1..4, j \in 1..4 :
       /\ objs[i].cls = "Shallow" /\ objs[j].cls = "Shallow"
       /\ objs[j].from = i
       /\ res[objs[j].resource].deletes = 2

\* The live proxies that use counter c.
C5_Sharers(c) ==
  {p \in 1..Len(proxies) : proxies[p].alive /\ proxies[p].referenceCount_ = c}

\* C5: while a proxy that shares a counter is alive, the counter is not freed
\* and holds the number of live proxies sharing it (which is also the use
\* count of the shared object); once the last of them is destroyed the
\* counter has been freed exactly once; a freed counter is never used.
C5_RefCountExact ==
  /\ ~danglingUse
  /\ \A c \in 1..Len(counters) :
       IF C5_Sharers(c) # {}
         THEN /\ counters[c].frees = 0
              /\ counters[c].value = Cardinality(C5_Sharers(c))
              /\ \A p \in C5_Sharers(c) :
                   largeObjects[proxies[p].object_].useCount = counters[c].value
         ELSE counters[c].frees = 1

\* A proxy was copied twice, the copies and then the original were destroyed,
\* and the counter was freed by the last destruction; another proxy is alive.
C5_Witness ==
  /\ Len(proxies) >= 4
  /\ proxies[2].referenceCount_ = 1 /\ proxies[3].referenceCount_ = 1
  /\ ~proxies[1].alive /\ ~proxies[2].alive /\ ~proxies[3].alive
  /\ counters[1].frees = 1 /\ counters[1].value = 0
  /\ proxies[4].alive /\ counters[proxies[4].referenceCount_].value = 1

\* C6: an ImageProxy has loaded its RealImage exactly when display() or
\* rotate() has been called on it at least once, and never more than once;
\* a proxy never accessed has loaded nothing.
C6_LoadedOnFirstAccessOnly ==
  \A f \in ImageFiles :
    /\ loads[f] <= 1
    /\ (loads[f] = 1) <=> (displays[f] + rotations[f] > 0)
    /\ realImage_[f] <=> (loads[f] = 1)

\* One proxy was displayed and rotated several times and loaded once; the
\* other proxy exists, was never accessed and loaded nothing.
C6_Witness ==
  \E f \in ImageFiles, g \in ImageFiles :
    /\ displays[f] >= 1 /\ rotations[f] >= 1 /\ displays[f] + rotations[f] >= 3
    /\ loads[f] = 1
    /\ imageProxy[g] /\ displays[g] + rotations[g] = 0 /\ loads[g] = 0

\* The level a proxy operation requires, with READ < WRITE < DELETE as 1, 2, 3.
C7_Level(p) == IF p = "READ" THEN 1 ELSE IF p = "WRITE" THEN 2 ELSE 3

C7_Required(op) ==
  IF op = "read" THEN 1 ELSE IF op = "write" THEN 2 ELSE 3

\* C7: a call on the proxy reaches the real document exactly when the user's
\* permission level is at least the level the operation requires; a denied
\* call leaves the content as it was, and the count of calls that reached the
\* document stays zero for every operation above the user's level.
C7_ForwardOnlyIfPermitted ==
  \A d \in Documents : userPermission_[d] # "none" =>
    /\ lastCall[d].op # "none" =>
         /\ lastCall[d].reached <=>
              (C7_Level(userPermission_[d]) >= C7_Required(lastCall[d].op))
         /\ ~lastCall[d].reached => content_[d] = lastCall[d].before
         /\ (lastCall[d].reached /\ lastCall[d].op # "write") =>
              content_[d] = lastCall[d].before
    /\ \A op \in DocOps :
         C7_Level(userPermission_[d]) < C7_Required(op) => forwarded[d][op] = 0
    /\ (C7_Level(userPermission_[d]) < 2) => content_[d] = ""

\* A READ user's write was denied and left the content empty, while a DELETE
\* user has read, written and deleted.
C7_Witness ==
  \E d \in Documents, e \in Documents :
    /\ userPermission_[d] = "READ"
    /\ lastCall[d].op = "write" /\ ~lastCall[d].reached /\ content_[d] = ""
    /\ forwarded[d]["read"] >= 1
    /\ userPermission_[e] = "DELETE"
    /\ forwarded[e]["read"] >= 1 /\ forwarded[e]["write"] >= 1
    /\ forwarded[e]["deleteDocument"] >= 1
    /\ content_[e] = "Admin can modify"

\* C8: the real service has been called exactly once for every city asked
\* about and never for another, however often the city was asked about; the
\* last answer is the one the first call for that city returned, which is
\* what the cache holds.
C8_OneFetchPerCity ==
  /\ \A c \in Cities : serviceCalls[c] = (IF requests[c] > 0 THEN 1 ELSE 0)
  /\ DOMAIN cache_ = {c \in Cities : requests[c] > 0}
  /\ lastAnswer.city # "" =>
       /\ lastAnswer.weather = firstAnswer[lastAnswer.city]
       /\ lastAnswer.weather = cache_[lastAnswer.city]

\* London was asked about three times and Paris once: one fetch each, none
\* for Tokyo.
C8_Witness ==
  /\ requests["London"] = 3 /\ serviceCalls["London"] = 1
  /\ requests["Paris"] = 1 /\ serviceCalls["Paris"] = 1
  /\ requests["Tokyo"] = 0 /\ serviceCalls["Tokyo"] = 0
  /\ lastAnswer.city = "London"

\* C9: edit(text) on a DRAFT document sets the content to text and leaves the
\* state; on a PUBLISHED or ARCHIVED document it leaves content and state as
\* they were.
C9_EditOnlyInDraft ==
  lastOp.op = "edit" =>
    IF lastOp.before.state_ = "DRAFT"
      THEN document = [state_ |-> "DRAFT", content_ |-> lastOp.text]
      ELSE document = lastOp.before

\* An edit was tried on a PUBLISHED document that holds other content, and
\* changed nothing.
C9_Witness ==
  /\ lastOp.op = "edit"
  /\ lastOp.before.state_ = "PUBLISHED"
  /\ lastOp.before.content_ = "First draft"
  /\ lastOp.text = "Hacked"
  /\ document.content_ = "First draft"

\* C10: a call on an ARCHIVED document leaves it ARCHIVED unless the call is
\* restore(), which makes it DRAFT with the same content; so in the sequence
\* of states a document goes through, ARCHIVED is followed only by DRAFT.
C10_ArchivedLeavesOnlyByRestore ==
  /\ (lastOp.op # "none" /\ lastOp.before.state_ = "ARCHIVED") =>
       /\ document.content_ = lastOp.before.content_
       /\ IF lastOp.op = "restore"
            THEN document.state_ = "DRAFT"
            ELSE document.state_ = "ARCHIVED"
  /\ \A i \in 1..(Len(trail) - 1) :
       trail[i] = "ARCHIVED" => trail[i + 1] = "DRAFT"

\* publish() was called on an ARCHIVED document with content, and the
\* document is still ARCHIVED.
C10_Witness ==
  /\ lastOp.op = "publish"
  /\ lastOp.before.state_ = "ARCHIVED"
  /\ lastOp.before.content_ = "Updated content"
  /\ document.state_ = "ARCHIVED"
  /\ trail = <<"PUBLISHED", "ARCHIVED", "DRAFT", "ARCHIVED">>

\* The four edges of the cycle Closed -> Listen -> Established -> CloseWait
\* -> Closed.
C11_Cycle ==
  {<<"Closed", "Listen">>, <<"Listen", "Established">>,
   <<"Established", "CloseWait">>, <<"CloseWait", "Closed">>}

\* C11 as stated: every state change of a TCPConnection is one of the four
\* edges of the cycle Closed -> Listen -> Established -> CloseWait -> Closed.
C11_OnlyCycleEdges ==
  \A i \in 1..(Len(tcpTrail) - 1) :
    <<tcpTrail[i], tcpTrail[i + 1]>> \in C11_Cycle

\* C11 amended: every state change of a TCPConnection is one of the four
\* edges of the cycle or the edge Listen -> Closed, which close() takes on a
\* listening connection; open() moves only Closed -> Listen, send() only
\* Listen -> Established, close() the other three.
C11_CycleOrListenClose ==
  /\ \A i \in 1..(Len(tcpTrail) - 1) :
       <<tcpTrail[i], tcpTrail[i + 1]>> \in C11_Cycle \cup {<<"Listen", "Closed">>}
  /\ \A i \in 1..Len(tcpCalls) :
       tcpCalls[i].before # tcpCalls[i].after =>
         <<tcpCalls[i].op, tcpCalls[i].before, tcpCalls[i].after>> \in
           {<<"open", "Closed", "Listen">>, <<"send", "Listen", "Established">>,
            <<"close", "Established", "CloseWait">>,
            <<"close", "CloseWait", "Closed">>, <<"close", "Listen", "Closed">>}

\* The connection went CloseWait -> Closed -> Listen along the cycle and was
\* then closed while listening, which took it straight back to Closed.
C11_Witness ==
  /\ Len(tcpCalls) > 0
  /\ tcpCalls[Len(tcpCalls)].op = "close"
  /\ tcpCalls[Len(tcpCalls)].before = "Listen"
  /\ tcpState = "Closed"
  /\ tcpTrail = <<"CloseWait", "Closed", "Listen", "Closed">>

\* C12: TextEditorHistory::saveState discards every saved state after the
\* current position and then appends the new one: right after it the history
\* is the entries up to the old position followed by the new state, the
\* current position is the last entry, and canRedo() is false.
C12_SaveStateTruncates ==
  [][edLastOp' = "saveState" =>
       /\ history.history_' = Append(SubSeq(history.history_, 1, history.currentIndex_ + 1),
                                     TextEditorMemento(editor.content_, editor.cursorPos_))
       /\ history.currentIndex_' = Len(history.history_') - 1
       /\ TextEditorHistory_getCurrentState' = TextEditorMemento(editor.content_, editor.cursorPos_)
       /\ ~TextEditorHistory_canRedo']_vars

\* A save made after an undo: the entry after the current position was
\* discarded and the new state took its place.
C12_Witness ==
  /\ edLastOp = "saveState"
  /\ histLast.discarded = 1
  /\ Len(history.history_) = MaxHistory
  /\ history.history_[Len(history.history_)] = TextEditorMemento(<<"b", "c">>, 1)
  /\ ~TextEditorHistory_canRedo

\* C13: restoring a memento of the history sets content and cursor position
\* back to the editor's values at the time of that save; a redo() right
\* after a successful undo() succeeds and returns to the saved state the
\* undo had left.
C13_RestoreExact ==
  /\ (edLastOp = "restoreState" /\ ~edCrashed /\ history.currentIndex_ >= 0) =>
       editor = savedFrom[history.currentIndex_ + 1]
  /\ \A i \in 1..Len(history.history_) :
       TextEditor_restoreState(editor, history.history_[i]) = savedFrom[i]
  /\ (histLast.op = "redo" /\ histLast.undone # NoMemento) =>
       /\ histLast.ok
       /\ TextEditorHistory_getCurrentState = histLast.undone

\* The editor was restored, after edits, to a saved state that differs from
\* what it held in content and in cursor position, by a redo that followed an
\* undo.
C13_Witness ==
  /\ edLastOp = "restoreState"
  /\ histLast.op = "redo" /\ histLast.undone # NoMemento
  /\ history.currentIndex_ >= 1
  /\ editor = savedFrom[history.currentIndex_ + 1]
  /\ editor.content_ = <<"b", "c">>
  /\ editor.cursorPos_ = 2
  /\ savedFrom[history.currentIndex_].content_ = <<"a">>

\* The pool of a flyweight factory.
C14_Pool(factory) ==
  CASE factory = "StringPool" -> pool_
    [] factory = "ParticleFactory" -> types_
    [] factory = "FormatFactory" -> formats_

\* C14: each flyweight factory shares one object per key: an object is
\* created only for a key not requested before, every later request with the
\* key returns the object the first one returned, and the pool holds exactly
\* the distinct keys requested, one object each.
C14_OneObjectPerKey ==
  /\ \A factory \in Factories :
       /\ DOMAIN C14_Pool(factory) = DOMAIN flyFirst[factory]
       /\ flyHeap[factory] = Cardinality(DOMAIN flyFirst[factory])
       /\ \A k \in DOMAIN C14_Pool(factory) :
            /\ C14_Pool(factory)[k].ptr = flyFirst[factory][k]
            /\ \A k2 \in DOMAIN C14_Pool(factory) :
                 C14_Pool(factory)[k].ptr = C14_Pool(factory)[k2].ptr => k = k2
  /\ flyLast.factory # "none" =>
       /\ flyLast.made = ~flyLast.known
       /\ flyLast.ret = flyFirst[flyLast.factory][flyLast.key]

\* Every factory holds two objects or more, and the last request, for a
\* CharacterFormat whose key was known, returned the object made for that key
\* before a later one was made.
C14_Witness ==
  /\ Cardinality(DOMAIN pool_) = 2
  /\ Cardinality(DOMAIN types_) = 2
  /\ types_["Bullet"].value.sprite_ = "missile.png"
  /\ flyHeap["FormatFactory"] = 3
  /\ flyLast = [factory |-> "FormatFactory", key |-> "Arial_12_1_0_0", ret |-> 1,
                made |-> FALSE, known |-> TRUE]
====
